---- MODULE Spec2Model ----
(***************************************************************************)
(* Bhabhi / Thulla trick-taking game (src/bhabhi_game.py): the Game        *)
(* object's rule engine and the run loop that drives it.                   *)
(*                                                                         *)
(* Seats are numbered from 0 as in the source (players[i]); a player's     *)
(* name "P<i+1>" is represented by its seat number.  A hand is a sequence, *)
(* kept sorted by sort_hand; card indices are 0-based as in the source, so *)
(* hand index ci is element ci + 1 of the sequence.  Python's None is the  *)
(* string "None" (suits, resolve_after_animation), NoRank (finished_rank)  *)
(* or NoIndex (a seat or card index); resolve_after_animation holds        *)
(* "True" or "False" otherwise.                                            *)
(*                                                                         *)
(* Not modelled: pixels, sounds, scroll position, clock values and the     *)
(* fields that only feed the drawing code (warning_text, warning_time,     *)
(* last_played_cards, moving_card, animating_card, pause_reason,           *)
(* last_action_time, trick_display_time).  Elapsed-time tests become       *)
(* nondeterminism: a step guarded by a timer may happen at any tick.       *)
(* self.deck is read only inside start_game; the deal is modelled by the   *)
(* hands it produces.                                                      *)
(*                                                                         *)
(* The deck is scaled down: the suits are the first NumSuits suits of      *)
(* SUITS and the ranks are the NumRanks highest ranks, so the Ace of       *)
(* Spades is always in the deck.                                           *)
(***************************************************************************)
EXTENDS Integers, Naturals, Sequences, FiniteSets, TLC

\* ---------------------------------------------------------------- bounds
NumSuits == 2
NumRanks == 3
MaxPlayers == 4
MaxCpuSeats == 1

\* ------------------------------------------------------ program constants
MinPlayers == 3
DefaultPlayerCount == 4
AceValue == 14
NoRank == 0
NoIndex == -1
NONE == "None"

ALL_SUITS == <<"S", "H", "D", "C">>
SUITS == SubSeq(ALL_SUITS, 1, NumSuits)
SuitSet == {SUITS[k] : k \in 1..NumSuits}
RANK_VALUE == (AceValue - NumRanks + 1)..AceValue

\* SUITS.index(s)
RECURSIVE IndexFrom(_, _, _)
IndexFrom(seq, x, k) == IF seq[k] = x THEN k - 1 ELSE IndexFrom(seq, x, k + 1)
SuitIndex(s) == IndexFrom(SUITS, s, 1)

Card(value, suit) == [suit |-> suit, value |-> value]
IsAceOfSpades(c) == c.value = AceValue /\ c.suit = "S"

\* full_deck(): suit-major list of every card
RECURSIVE DeckFrom(_)
DeckFrom(k) ==
    IF k >= NumSuits * NumRanks THEN <<>>
    ELSE <<Card((AceValue - NumRanks + 1) + (k % NumRanks), SUITS[(k \div NumRanks) + 1])>>
         \o DeckFrom(k + 1)
full_deck == DeckFrom(0)
DeckSet == {full_deck[k] : k \in 1..Len(full_deck)}

\* ---------------------------------------------------------------- Player
\* key of Player.sort_hand: (SUITS.index(c.suit), c.value), compared as a tuple
KeyLess(a, b) ==
    \/ SuitIndex(a.suit) < SuitIndex(b.suit)
    \/ SuitIndex(a.suit) = SuitIndex(b.suit) /\ a.value < b.value

\* insertion into a sorted list, after every element whose key is not greater
\* (list.sort is stable)
RECURSIVE InsertSorted(_, _)
InsertSorted(sorted, c) ==
    IF sorted = <<>> THEN <<c>>
    ELSE IF KeyLess(c, Head(sorted)) THEN <<c>> \o sorted
    ELSE <<Head(sorted)>> \o InsertSorted(Tail(sorted), c)

RECURSIVE sort_hand(_)
sort_hand(hand) ==
    IF hand = <<>> THEN <<>>
    ELSE InsertSorted(sort_hand(SubSeq(hand, 1, Len(hand) - 1)), hand[Len(hand)])

has_suit(hand, suit) == \E k \in 1..Len(hand) : hand[k].suit = suit

\* a pop that always takes the first card of the hand
play_card_first(hand, card_index) == Tail(hand)

\* a pop that leaves the hand as it was
play_card_keeps(hand, card_index) == hand

\* hand.pop(card_index): the hand that is left
play_card(hand, card_index) ==
    SubSeq(hand, 1, card_index) \o SubSeq(hand, card_index + 2, Len(hand))

\* hand.extend(cards); sort_hand()
pick_up(hand, cards) == sort_hand(hand \o cards)

NewPlayer == [is_human |-> TRUE, hand |-> <<>>, is_active |-> TRUE,
              finished_rank |-> NoRank, just_picked_up |-> FALSE, avoid_suit |-> NONE]

\* ------------------------------------------------------------ Game state
VARIABLES state, players, player_count, discard_pile, trick_cards,
          leader_index, active_index, required_suit, ranks_assigned,
          finish_order, showing_trick, pending_tochoo, last_trick_suit,
          paused, first_move, animating, resolve_after_animation

vars == <<state, players, player_count, discard_pile, trick_cards,
          leader_index, active_index, required_suit, ranks_assigned,
          finish_order, showing_trick, pending_tochoo, last_trick_suit,
          paused, first_move, animating, resolve_after_animation>>

\* the Game object: the methods below take it and return it as changed
self == [state |-> state, players |-> players, player_count |-> player_count,
         discard_pile |-> discard_pile, trick_cards |-> trick_cards,
         leader_index |-> leader_index, active_index |-> active_index,
         required_suit |-> required_suit, ranks_assigned |-> ranks_assigned,
         finish_order |-> finish_order, showing_trick |-> showing_trick,
         pending_tochoo |-> pending_tochoo, last_trick_suit |-> last_trick_suit,
         paused |-> paused, first_move |-> first_move, animating |-> animating,
         resolve_after_animation |-> resolve_after_animation]

\* the Game object after a method has run
Becomes(g) ==
    /\ state' = g.state
    /\ players' = g.players
    /\ player_count' = g.player_count
    /\ discard_pile' = g.discard_pile
    /\ trick_cards' = g.trick_cards
    /\ leader_index' = g.leader_index
    /\ active_index' = g.active_index
    /\ required_suit' = g.required_suit
    /\ ranks_assigned' = g.ranks_assigned
    /\ finish_order' = g.finish_order
    /\ showing_trick' = g.showing_trick
    /\ pending_tochoo' = g.pending_tochoo
    /\ last_trick_suit' = g.last_trick_suit
    /\ paused' = g.paused
    /\ first_move' = g.first_move
    /\ animating' = g.animating
    /\ resolve_after_animation' = g.resolve_after_animation

\* len(self.players); players is a function on 0..n-1
NumPlayers(g) == Cardinality(DOMAIN g.players)
Seats(g) == DOMAIN g.players

\* Game.__init__
Init ==
    /\ state = "setup"
    /\ players = <<>>
    /\ player_count = DefaultPlayerCount
    /\ discard_pile = <<>>
    /\ trick_cards = <<>>
    /\ leader_index = 0
    /\ active_index = 0
    /\ required_suit = NONE
    /\ ranks_assigned = 0
    /\ finish_order = <<>>
    /\ showing_trick = FALSE
    /\ pending_tochoo = FALSE
    /\ last_trick_suit = NONE
    /\ paused = FALSE
    /\ first_move = FALSE
    /\ animating = FALSE
    /\ resolve_after_animation = NONE

\* ----------------------------------------------------------- setup screen
\* draw_setup: the first frame on the setup screen creates the default players
draw_setup(g) ==
    IF NumPlayers(g) = 0
    THEN [g EXCEPT !.players = [i \in 0..(g.player_count - 1) |-> NewPlayer]]
    ELSE g

set_player_count(g, n) ==
    [g EXCEPT !.player_count = n,
              !.players = [i \in 0..(n - 1) |->
                              IF i < NumPlayers(g) THEN g.players[i] ELSE NewPlayer]]

toggle_player_type(g, idx) ==
    IF idx >= NumPlayers(g) THEN g
    ELSE [g EXCEPT !.players[idx].is_human = ~g.players[idx].is_human]

\* a restart that leaves the animation hold and the queued outcome in place
restart_to_setup_keeps_hold(g) ==
    [g EXCEPT !.state = "setup",
              !.players = <<>>,
              !.player_count = DefaultPlayerCount,
              !.trick_cards = <<>>,
              !.discard_pile = <<>>,
              !.ranks_assigned = 0,
              !.finish_order = <<>>,
              !.required_suit = NONE,
              !.paused = FALSE,
              !.showing_trick = FALSE,
              !.pending_tochoo = FALSE,
              !.first_move = FALSE,
              !.last_trick_suit = NONE]

restart_to_setup(g) ==
    [g EXCEPT !.state = "setup",
              !.players = <<>>,
              !.player_count = DefaultPlayerCount,
              !.trick_cards = <<>>,
              !.discard_pile = <<>>,
              !.ranks_assigned = 0,
              !.finish_order = <<>>,
              !.required_suit = NONE,
              !.paused = FALSE,
              !.showing_trick = FALSE,
              !.pending_tochoo = FALSE,
              !.first_move = FALSE,
              !.last_trick_suit = NONE,
              !.animating = FALSE,
              !.resolve_after_animation = NONE]

toggle_pause(g) ==
    IF g.state \in {"play", "showing_trick"}
    THEN LET p == ~g.paused
         IN  [g EXCEPT !.paused = p,
                       !.state = IF p THEN "paused"
                                 ELSE IF ~g.showing_trick THEN "play"
                                 ELSE "showing_trick"]
    ELSE g

\* ------------------------------------------------------------ start / deal
\* counts[i] of start_game: len(deck) // player_count, plus one for the first
\* len(deck) - sum(counts) seats
\* counts without the loop that hands out the extra cards
DealCount_no_extra(n, i) == Len(full_deck) \div n

DealCount(n, i) ==
    LET base  == Len(full_deck) \div n
        extra == Len(full_deck) - base * n
    IN  IF i < extra THEN base + 1 ELSE base

\* deck[pos .. pos + counts[i]) for seat i
DealSlice(deck, n, i) ==
    LET RECURSIVE Before(_)
        Before(j) == IF j = 0 THEN 0 ELSE Before(j - 1) + DealCount(n, j - 1)
    IN  SubSeq(deck, Before(i) + 1, Before(i) + DealCount(n, i))

\* random.shuffle(self.deck): every order of the deck.  The hands are sorted
\* after the deal, so one order is kept for each way of splitting the deck into
\* the seats' slices: the order that lists each slice in deck order.
RECURSIVE SplitsOf(_, _)
SplitsOf(cards, sizes) ==
    IF sizes = <<>> THEN {<<>>}
    ELSE UNION {{<<first>> \o rest : rest \in SplitsOf(cards \ first, Tail(sizes))} :
                   first \in {h \in SUBSET cards : Cardinality(h) = Head(sizes)}}

Listed(cardset) == SelectSeq(full_deck, LAMBDA c : c \in cardset)

RECURSIVE Concat(_)
Concat(seqs) == IF seqs = <<>> THEN <<>> ELSE Head(seqs) \o Concat(Tail(seqs))

ShufflesFor(n) ==
    {Concat([k \in 1..n |-> Listed(split[k])]) :
        split \in SplitsOf(DeckSet, [k \in 1..n |-> DealCount(n, k - 1)])}

Shuffles == [n \in MinPlayers..(IF MaxPlayers > DefaultPlayerCount THEN MaxPlayers
                                ELSE DefaultPlayerCount) |-> ShufflesFor(n)]

\* a search for the starter that settles on the first seat
FindStarter_first(ps, i) == i

\* the seat holding the Ace of Spades, found in seat order
RECURSIVE FindStarter(_, _)
FindStarter(ps, i) ==
    IF i >= Cardinality(DOMAIN ps) THEN NoIndex
    ELSE IF \E k \in 1..Len(ps[i].hand) : IsAceOfSpades(ps[i].hand[k]) THEN i
    ELSE FindStarter(ps, i + 1)

\* start_game with self.deck shuffled into the order deck; rnd is what
\* random.randrange(len(self.players)) returns when no seat holds the Ace
start_game(g, deck, rnd) ==
    LET dealt == [i \in Seats(g) |->
                    [g.players[i] EXCEPT
                        !.hand = sort_hand(DealSlice(deck, g.player_count, i)),
                        !.is_active = TRUE,
                        !.finished_rank = NoRank,
                        !.just_picked_up = FALSE,
                        !.avoid_suit = NONE]]
        found == FindStarter(dealt, 0)
        starter == IF found = NoIndex THEN rnd ELSE found
    IN  [g EXCEPT !.players = dealt,
                  !.discard_pile = <<>>,
                  !.trick_cards = <<>>,
                  !.finish_order = <<>>,
                  !.ranks_assigned = 0,
                  !.last_trick_suit = NONE,
                  !.leader_index = starter,
                  !.active_index = starter,
                  !.required_suit = NONE,
                  !.state = "play",
                  !.paused = FALSE,
                  !.showing_trick = FALSE,
                  !.pending_tochoo = FALSE,
                  !.first_move = TRUE,
                  !.animating = FALSE,
                  !.resolve_after_animation = NONE]

\* ------------------------------------------------------------ play helpers
ActiveSeats(g) == {i \in Seats(g) : g.players[i].is_active}

count_active_players(g) == Cardinality(ActiveSeats(g))

\* the while loop of next_active_index, at seat i after loop_protect rounds
RECURSIVE NextActiveLoop(_, _, _)
NextActiveLoop(g, i, loop_protect) ==
    IF ~g.players[i].is_active /\ loop_protect < NumPlayers(g)
    THEN NextActiveLoop(g, (i + 1) % NumPlayers(g), loop_protect + 1)
    ELSE i

\* a turn order that does not skip the seats that are out
next_active_index_no_skip(g, current) ==
    IF NumPlayers(g) = 0 THEN NoIndex ELSE (current + 1) % NumPlayers(g)

next_active_index(g, current) ==
    IF NumPlayers(g) = 0 THEN NoIndex
    ELSE NextActiveLoop(g, (current + 1) % NumPlayers(g), 0)

\* a ranking loop that leaves the seats it ranks active
RECURSIVE RankSeats_stay_active(_, _, _)
RankSeats_stay_active(g, due, i) ==
    IF i >= NumPlayers(g) THEN g
    ELSE IF i \in due
    THEN RankSeats_stay_active(
             [g EXCEPT !.ranks_assigned = g.ranks_assigned + 1,
                       !.players[i].finished_rank = g.ranks_assigned + 1,
                       !.finish_order = Append(g.finish_order,
                                               <<i, g.ranks_assigned + 1>>)],
             due, i + 1)
    ELSE RankSeats_stay_active(g, due, i + 1)

\* the loop that ranks seats, in seat order from seat i: every seat of the set
\* due gets the next rank, is deactivated and is appended to finish_order
RECURSIVE RankSeats(_, _, _)
RankSeats(g, due, i) ==
    IF i >= NumPlayers(g) THEN g
    ELSE IF i \in due
    THEN RankSeats([g EXCEPT !.ranks_assigned = g.ranks_assigned + 1,
                             !.players[i].finished_rank = g.ranks_assigned + 1,
                             !.players[i].is_active = FALSE,
                             !.finish_order = Append(g.finish_order,
                                                     <<i, g.ranks_assigned + 1>>)],
                   due, i + 1)
    ELSE RankSeats(g, due, i + 1)

\* a game-end test that waits until no seat is active
check_game_end_none_left(g) ==
    IF count_active_players(g) < 1 THEN [g EXCEPT !.state = "finished"] ELSE g

check_game_end(g) ==
    IF count_active_players(g) <= 1
    THEN LET due == {i \in Seats(g) : g.players[i].is_active
                                      /\ g.players[i].finished_rank = NoRank}
         IN  [RankSeats(g, due, 0) EXCEPT !.state = "finished"]
    ELSE g

\* a trigger that already clears the required suit
resolve_trick_clears(g, tochoo_occurred) ==
    IF g.trick_cards = <<>> THEN g
    ELSE [g EXCEPT !.last_trick_suit = g.required_suit,
                   !.required_suit = NONE,
                   !.showing_trick = TRUE,
                   !.pending_tochoo = tochoo_occurred,
                   !.state = "showing_trick"]

resolve_trick(g, tochoo_occurred) ==
    IF g.trick_cards = <<>> THEN g
    ELSE [g EXCEPT !.last_trick_suit = g.required_suit,
                   !.showing_trick = TRUE,
                   !.pending_tochoo = tochoo_occurred,
                   !.state = "showing_trick"]

\* max(suited, key=lambda t: t[1].value)[0]: the seat of the first entry of the
\* highest value
RECURSIVE MaxByValue(_, _)
MaxByValue(entries, best) ==
    IF entries = <<>> THEN best
    ELSE MaxByValue(Tail(entries),
                    IF Head(entries)[2].value > best[2].value THEN Head(entries) ELSE best)

\* a resolution that always hands the trick to its leader
TrickWinner_leader(g) == g.leader_index

TrickWinner(g) ==
    LET suited == SelectSeq(g.trick_cards, LAMBDA t : t[2].suit = g.required_suit)
    IN  IF suited = <<>> THEN g.leader_index
        ELSE MaxByValue(Tail(suited), Head(suited))[1]

\* a resolution that moves only the off-suit cards of the trick
TrickCardList_off_suit(g) ==
    LET off == SelectSeq(g.trick_cards, LAMBDA t : t[2].suit # g.required_suit)
    IN  [k \in 1..Len(off) |-> off[k][2]]

\* [card for (_, card) in self.trick_cards]
TrickCardList(g) == [k \in 1..Len(g.trick_cards) |-> g.trick_cards[k][2]]

\* a ranking loop that forgets the is_active test
EmptiedSeats_any(g) == {i \in Seats(g) : g.players[i].hand = <<>>}

\* the seats the ranking loop of actually_resolve_trick ranks
EmptiedSeats(g) == {i \in Seats(g) : g.players[i].is_active /\ g.players[i].hand = <<>>}

actually_resolve_trick(g, tochoo_occurred) ==
    LET taker == TrickWinner(g)
        g1 == IF tochoo_occurred
              THEN [g EXCEPT !.players[taker].hand =
                                 pick_up(g.players[taker].hand, TrickCardList(g)),
                             !.players[taker].just_picked_up = TRUE,
                             !.players[taker].avoid_suit = g.last_trick_suit,
                             !.leader_index = taker,
                             !.active_index = taker]
              ELSE [g EXCEPT !.discard_pile = g.discard_pile \o TrickCardList(g),
                             !.leader_index = taker,
                             !.active_index = taker]
        g2 == [g1 EXCEPT !.trick_cards = <<>>, !.required_suit = NONE]
        g3 == check_game_end(RankSeats(g2, EmptiedSeats(g2), 0))
        g4 == [g3 EXCEPT !.showing_trick = FALSE,
                         !.pending_tochoo = FALSE,
                         !.last_trick_suit = NONE]
    IN  IF g4.state # "finished" THEN [g4 EXCEPT !.state = "play"] ELSE g4

\* ------------------------------------------------------------- playability
\* a legality test that lets a seat holding the required suit play any card
is_card_playable_no_follow(g, player_idx, card_index) ==
    LET p == g.players[player_idx]
        card == p.hand[card_index + 1]
    IN  IF ~p.is_active THEN FALSE
        ELSE IF g.required_suit = NONE /\ g.first_move /\ player_idx = g.active_index
        THEN IsAceOfSpades(card)
        ELSE TRUE

\* a legality test without the opening rule
is_card_playable_any_opening(g, player_idx, card_index) ==
    LET p == g.players[player_idx]
        card == p.hand[card_index + 1]
    IN  IF ~p.is_active THEN FALSE
        ELSE IF g.required_suit = NONE THEN TRUE
        ELSE IF has_suit(p.hand, g.required_suit) THEN card.suit = g.required_suit
        ELSE TRUE

is_card_playable(g, player_idx, card_index) ==
    LET p == g.players[player_idx]
        card == p.hand[card_index + 1]
    IN  IF ~p.is_active THEN FALSE
        ELSE IF g.required_suit = NONE /\ g.first_move /\ player_idx = g.active_index
        THEN IsAceOfSpades(card)
        ELSE IF g.required_suit = NONE THEN TRUE
        ELSE IF has_suit(p.hand, g.required_suit) THEN card.suit = g.required_suit
        ELSE TRUE

\* the list of playable indices, in increasing order
playable_indices_for_player(g, player_idx) ==
    SelectSeq([k \in 1..Len(g.players[player_idx].hand) |-> k - 1],
              LAMBDA i : is_card_playable(g, player_idx, i))

\* --------------------------------------------------------------- CPU policy
\* min(indices, key=value) / max(indices, key=value): the first index of the
\* lowest / highest value
RECURSIVE MinIndex(_, _, _)
MinIndex(hand, indices, best) ==
    IF indices = <<>> THEN best
    ELSE MinIndex(hand, Tail(indices),
                  IF hand[Head(indices) + 1].value < hand[best + 1].value
                  THEN Head(indices) ELSE best)

RECURSIVE MaxIndex(_, _, _)
MaxIndex(hand, indices, best) ==
    IF indices = <<>> THEN best
    ELSE MaxIndex(hand, Tail(indices),
                  IF hand[Head(indices) + 1].value > hand[best + 1].value
                  THEN Head(indices) ELSE best)

LowestOf(hand, indices) == MinIndex(hand, Tail(indices), Head(indices))
HighestOf(hand, indices) == MaxIndex(hand, Tail(indices), Head(indices))

\* range(len(hand))
AllIndices(hand) == [k \in 1..Len(hand) |-> k - 1]

\* a choice that takes no account of avoid_suit
cpu_choose_card_index_no_avoid(g, player_idx) ==
    LET p == g.players[player_idx]
        hand == p.hand
        all == AllIndices(hand)
        aces == SelectSeq(all, LAMBDA i : IsAceOfSpades(hand[i + 1]))
        same_suit == SelectSeq(all, LAMBDA i : hand[i + 1].suit = g.required_suit)
    IN  IF hand = <<>> THEN NoIndex
        ELSE IF g.required_suit = NONE
        THEN IF g.first_move /\ player_idx = g.active_index /\ aces # <<>>
             THEN Head(aces)
             ELSE LowestOf(hand, all)
        ELSE IF same_suit # <<>> THEN LowestOf(hand, same_suit)
        ELSE HighestOf(hand, all)

cpu_choose_card_index(g, player_idx) ==
    LET p == g.players[player_idx]
        hand == p.hand
        all == AllIndices(hand)
        avoid_suit == IF p.just_picked_up THEN p.avoid_suit ELSE NONE
        aces == SelectSeq(all, LAMBDA i : IsAceOfSpades(hand[i + 1]))
        non_avoid == SelectSeq(all, LAMBDA i : hand[i + 1].suit # avoid_suit)
        same_suit == SelectSeq(all, LAMBDA i : hand[i + 1].suit = g.required_suit)
    IN  IF hand = <<>> THEN NoIndex
        ELSE IF g.required_suit = NONE
        THEN IF g.first_move /\ player_idx = g.active_index /\ aces # <<>>
             THEN Head(aces)
             ELSE IF avoid_suit # NONE /\ non_avoid # <<>>
             THEN LowestOf(hand, non_avoid)
             ELSE LowestOf(hand, all)
        ELSE IF same_suit # <<>> THEN LowestOf(hand, same_suit)
        ELSE IF avoid_suit # NONE /\ non_avoid # <<>>
        THEN HighestOf(hand, non_avoid)
        ELSE HighestOf(hand, all)

\* ------------------------------------------------------------ playing a card
\* the "if getattr(p, 'just_picked_up', False)" blocks
ClearPickup_keeps(g, player_idx) == g

ClearPickup(g, player_idx) ==
    IF g.players[player_idx].just_picked_up
    THEN [g EXCEPT !.players[player_idx].just_picked_up = FALSE,
                   !.players[player_idx].avoid_suit = NONE]
    ELSE g

\* a lead that does not enforce the opening Ace of Spades
PlayLead_any_opening(g, player_idx, card_index) ==
    LET p == g.players[player_idx]
        card == p.hand[card_index + 1]
    IN  [g EXCEPT !.players[player_idx].hand = play_card(p.hand, card_index),
                  !.trick_cards = Append(g.trick_cards, <<player_idx, card>>),
                  !.animating = TRUE,
                  !.first_move = FALSE,
                  !.required_suit = card.suit,
                  !.active_index = next_active_index(g, player_idx)]

\* a lead that does not record the suit it leads
PlayLead_no_suit(g, player_idx, card_index) ==
    LET p == g.players[player_idx]
        card == p.hand[card_index + 1]
        g1 == [g EXCEPT !.players[player_idx].hand = play_card(p.hand, card_index),
                        !.trick_cards = Append(g.trick_cards, <<player_idx, card>>),
                        !.animating = TRUE,
                        !.first_move = FALSE,
                        !.active_index = next_active_index(g, player_idx)]
        g2 == IF g1.players[player_idx].hand = <<>>
              THEN check_game_end(RankSeats(g1, {player_idx}, player_idx))
              ELSE g1
    IN  IF g.first_move /\ player_idx = g.active_index /\ ~IsAceOfSpades(card)
        THEN g
        ELSE ClearPickup(g2, player_idx)

\* attempt_play_card when no trick is started (required_suit is None)
PlayLead(g, player_idx, card_index) ==
    LET p == g.players[player_idx]
        card == p.hand[card_index + 1]
        g1 == [g EXCEPT !.players[player_idx].hand = play_card(p.hand, card_index),
                        !.trick_cards = Append(g.trick_cards, <<player_idx, card>>),
                        !.animating = TRUE,
                        !.first_move = FALSE,
                        !.required_suit = card.suit,
                        !.active_index = next_active_index(g, player_idx)]
        g2 == IF g1.players[player_idx].hand = <<>>
              THEN check_game_end(RankSeats(g1, {player_idx}, player_idx))
              ELSE g1
    IN  IF g.first_move /\ player_idx = g.active_index /\ ~IsAceOfSpades(card)
        THEN g
        ELSE ClearPickup(g2, player_idx)

\* a follow that takes the card out of the hand before it tests the suit
PlayFollow_pops_first(g, player_idx, card_index) ==
    LET p == g.players[player_idx]
        had_required == has_suit(p.hand, g.required_suit)
        card == p.hand[card_index + 1]
        g0 == [g EXCEPT !.players[player_idx].hand = play_card(p.hand, card_index)]
        g1 == [g0 EXCEPT !.trick_cards = Append(g.trick_cards, <<player_idx, card>>),
                         !.animating = TRUE]
        g2 == [g1 EXCEPT !.active_index = next_active_index(g1, player_idx)]
    IN  IF had_required /\ card.suit # g.required_suit THEN g0
        ELSE IF card.suit # g.required_suit /\ ~had_required
        THEN [ClearPickup(g1, player_idx) EXCEPT !.resolve_after_animation = "True"]
        ELSE IF g2.active_index = g2.leader_index
                /\ Len(g2.trick_cards) >= count_active_players(g2)
        THEN [g2 EXCEPT !.resolve_after_animation = "False"]
        ELSE ClearPickup(g2, player_idx)

\* attempt_play_card when a trick is already led
\* a follow that queues a completed clean trick as a tochoo
PlayFollow_clean_as_tochoo(g, player_idx, card_index) ==
    LET p == g.players[player_idx]
        had_required == has_suit(p.hand, g.required_suit)
        card == p.hand[card_index + 1]
        g1 == [g EXCEPT !.players[player_idx].hand = play_card(p.hand, card_index),
                        !.trick_cards = Append(g.trick_cards, <<player_idx, card>>),
                        !.animating = TRUE]
        g2 == [g1 EXCEPT !.active_index = next_active_index(g1, player_idx)]
    IN  IF had_required /\ card.suit # g.required_suit THEN g
        ELSE IF card.suit # g.required_suit /\ ~had_required
        THEN [ClearPickup(g1, player_idx) EXCEPT !.resolve_after_animation = "True"]
        ELSE IF g2.active_index = g2.leader_index
                /\ Len(g2.trick_cards) >= count_active_players(g2)
        THEN [g2 EXCEPT !.resolve_after_animation = "True"]
        ELSE ClearPickup(g2, player_idx)

PlayFollow(g, player_idx, card_index) ==
    LET p == g.players[player_idx]
        had_required == has_suit(p.hand, g.required_suit)
        card == p.hand[card_index + 1]
        g1 == [g EXCEPT !.players[player_idx].hand = play_card(p.hand, card_index),
                        !.trick_cards = Append(g.trick_cards, <<player_idx, card>>),
                        !.animating = TRUE]
        g2 == [g1 EXCEPT !.active_index = next_active_index(g1, player_idx)]
    IN  IF had_required /\ card.suit # g.required_suit THEN g
        ELSE IF card.suit # g.required_suit /\ ~had_required
        THEN [ClearPickup(g1, player_idx) EXCEPT !.resolve_after_animation = "True"]
        ELSE IF g2.active_index = g2.leader_index
                /\ Len(g2.trick_cards) >= count_active_players(g2)
        THEN [g2 EXCEPT !.resolve_after_animation = "False"]
        ELSE ClearPickup(g2, player_idx)

\* an attempt_play_card without the test of the animation hold
attempt_play_card_no_hold(g, player_idx, card_index) ==
    IF player_idx # g.active_index THEN g
    ELSE IF ~g.players[player_idx].is_active THEN g
    ELSE IF g.required_suit = NONE THEN PlayLead(g, player_idx, card_index)
    ELSE PlayFollow(g, player_idx, card_index)

attempt_play_card(g, player_idx, card_index) ==
    IF g.animating THEN g
    ELSE IF player_idx # g.active_index THEN g
    ELSE IF ~g.players[player_idx].is_active THEN g
    ELSE IF g.required_suit = NONE THEN PlayLead(g, player_idx, card_index)
    ELSE PlayFollow(g, player_idx, card_index)

\* cpu_auto_play_if_needed once the thinking delay has elapsed
cpu_auto_play_if_needed(g) ==
    LET active_idx == g.active_index
        p == g.players[active_idx]
        idx == cpu_choose_card_index(g, active_idx)
        playable == playable_indices_for_player(g, active_idx)
    IN  IF g.animating THEN g
        ELSE IF ~p.is_active \/ p.is_human THEN g
        ELSE IF idx = NoIndex THEN g
        ELSE IF ~is_card_playable(g, active_idx, idx)
        THEN IF playable = <<>> THEN g
             ELSE attempt_play_card(g, active_idx, Head(playable))
        ELSE attempt_play_card(g, active_idx, idx)

\* ------------------------------------------------------------------ handlers
\* handle_play_click with the click on card card_index of the hand on screen
handle_play_click(g, card_index) ==
    LET active_idx == g.active_index
        player == g.players[active_idx]
    IN  IF g.animating THEN g
        ELSE IF ~player.is_active THEN g
        ELSE IF player.is_human /\ card_index < Len(player.hand)
        THEN IF ~is_card_playable(g, active_idx, card_index) THEN g
             ELSE attempt_play_card(g, active_idx, card_index)
        ELSE g

\* an animation end that calls resolve_trick() without the queued outcome
finish_animation_default(g) ==
    LET g1 == [g EXCEPT !.animating = FALSE]
    IN  IF g.resolve_after_animation # NONE
        THEN resolve_trick([g1 EXCEPT !.resolve_after_animation = NONE], FALSE)
        ELSE g1

\* the part of draw_play that drives the card animation, when it has finished
finish_animation(g) ==
    LET g1 == [g EXCEPT !.animating = FALSE]
    IN  IF g.resolve_after_animation # NONE
        THEN resolve_trick([g1 EXCEPT !.resolve_after_animation = NONE],
                           g.resolve_after_animation = "True")
        ELSE g1

CpuSeats(g) == {i \in Seats(g) : ~g.players[i].is_human}

\* ------------------------------------------------------------------- actions
\* run: a frame on the setup screen
DrawSetup ==
    /\ state = "setup"
    /\ Becomes(draw_setup(self))

\* handle_setup_click on a player-count button
SetPlayerCount ==
    /\ state = "setup"
    /\ \E n \in MinPlayers..MaxPlayers : Becomes(set_player_count(self, n))

\* handle_setup_click on a Human/CPU button
TogglePlayerType ==
    /\ state = "setup"
    /\ \E idx \in 0..(player_count - 1) :
          /\ Cardinality(CpuSeats(toggle_player_type(self, idx))) <= MaxCpuSeats
          /\ Becomes(toggle_player_type(self, idx))

\* handle_setup_click on Start Game (with no players yet, random.randrange(0)
\* raises and the program ends)
StartGame ==
    /\ state = "setup"
    /\ NumPlayers(self) > 0
    /\ \E deck \in Shuffles[player_count] :
          \E rnd \in (IF FindStarter(start_game(self, deck, 0).players, 0) = NoIndex
                      THEN Seats(self) ELSE {0}) :
             Becomes(start_game(self, deck, rnd))

\* run: a mouse click on a card of the hand during play
HandlePlayClick ==
    /\ state = "play"
    /\ ~paused
    /\ \E card_index \in 0..(Len(full_deck) - 1) :
          Becomes(handle_play_click(self, card_index))

\* run -> update_play: the CPU seat to move plays
CpuAutoPlay ==
    /\ state = "play"
    /\ ~paused
    /\ ~animating
    /\ ~players[active_index].is_human
    /\ Becomes(cpu_auto_play_if_needed(self))

\* run -> draw_play: the moving card arrives
AnimationFinished ==
    /\ state \in {"play", "paused", "showing_trick"}
    /\ animating
    /\ Becomes(finish_animation(self))

\* run: the trick has been shown for three seconds
CommitResolution ==
    /\ state = "showing_trick"
    /\ ~paused
    /\ Becomes(actually_resolve_trick(self, pending_tochoo))

\* run: key P in any state (handle_play_click on the Pause button does the same
\* in some of the states of play)
TogglePause ==
    Becomes(toggle_pause(self))

\* run: key R in any state (a click on the Restart button does the same)
Restart ==
    Becomes(restart_to_setup(self))

\* a caller of the engine invokes attempt_play_card(player_idx, card_index)
\* itself, where the run loop's callers invoke it (during play, not paused),
\* for any seat and any card index that exists when the hand is indexed
CanCall(player_idx, card_index) ==
    /\ state = "play"
    /\ ~paused
    /\ player_idx \in Seats(self)
    /\ \/ animating
       \/ player_idx # active_index
       \/ ~players[player_idx].is_active
       \/ card_index < Len(players[player_idx].hand)

AttemptPlayCardCall(player_idx, card_index) ==
    /\ CanCall(player_idx, card_index)
    /\ Becomes(attempt_play_card(self, player_idx, card_index))

AttemptPlayCard ==
    \E player_idx \in 0..(MaxPlayers - 1), card_index \in 0..(Len(full_deck) - 1) :
        AttemptPlayCardCall(player_idx, card_index)

Next ==
    \/ DrawSetup
    \/ SetPlayerCount
    \/ TogglePlayerType
    \/ StartGame
    \/ HandlePlayClick
    \/ CpuAutoPlay
    \/ AnimationFinished
    \/ CommitResolution
    \/ TogglePause
    \/ Restart

\* the program: the run loop and its handlers
Spec == Init /\ [][Next]_vars

\* the program, with the engine's attempt_play_card also called directly
NextEngine == Next \/ AttemptPlayCard

SpecEngine == Init /\ [][NextEngine]_vars

\* ------------------------------------------------ the CPU policy on its own
\* cpu_choose_card_index reads the hand, just_picked_up and avoid_suit of the
\* seat, required_suit, first_move and active_index.  CpuTable is a table of
\* three seats in state 'play' in which seat 0 is a CPU holding the cards h,
\* with avoid_suit = avoid (and just_picked_up set) unless avoid is None; the
\* cards of others are held by seats 1 and 2 in turn; trick is what has been
\* played so far and a is the seat to move.
CpuTable(h, others, trick, req, avoid, fm, a) ==
    LET rest == Listed(others)
        odd == SelectSeq([k \in 1..Len(rest) |-> k], LAMBDA k : k % 2 = 1)
        even == SelectSeq([k \in 1..Len(rest) |-> k], LAMBDA k : k % 2 = 0)
        cpu == [NewPlayer EXCEPT !.is_human = FALSE,
                                 !.hand = sort_hand(Listed(h)),
                                 !.just_picked_up = avoid # NONE,
                                 !.avoid_suit = avoid]
        p1 == [NewPlayer EXCEPT !.hand = sort_hand([k \in 1..Len(odd) |-> rest[odd[k]]])]
        p2 == [NewPlayer EXCEPT !.hand = sort_hand([k \in 1..Len(even) |-> rest[even[k]]])]
    IN  /\ state = "play"
        /\ players = [i \in 0..2 |-> IF i = 0 THEN cpu ELSE IF i = 1 THEN p1 ELSE p2]
        /\ player_count = MinPlayers
        /\ discard_pile = <<>>
        /\ trick_cards = trick
        /\ leader_index = IF trick = <<>> THEN a ELSE trick[1][1]
        /\ active_index = a
        /\ required_suit = req
        /\ ranks_assigned = 0
        /\ finish_order = <<>>
        /\ showing_trick = FALSE
        /\ pending_tochoo = FALSE
        /\ last_trick_suit = NONE
        /\ paused = FALSE
        /\ first_move = fm
        /\ animating = FALSE
        /\ resolve_after_animation = NONE

\* no trick is started: seat 0 or seat 1 is to lead
InitCpuLeads ==
    \E h \in SUBSET DeckSet, avoid \in SuitSet \cup {NONE}, fm \in BOOLEAN, a \in {0, 1} :
       CpuTable(h, DeckSet \ h, <<>>, NONE, avoid, fm, a)

\* seat 1 has led the card lc and seat 0 is to follow
InitCpuFollows ==
    \E h \in SUBSET DeckSet, avoid \in SuitSet \cup {NONE} :
       \E lc \in DeckSet \ h :
          CpuTable(h, (DeckSet \ h) \ {lc}, <<<<1, lc>>>>, lc.suit, avoid, FALSE, 0)

InitCpu == InitCpuLeads \/ InitCpuFollows

NextCpu == CpuAutoPlay

SpecCpu == InitCpu /\ [][NextCpu]_vars

\* -------------------------------------------- a game left to run to its end
\* run with nobody pressing Pause or Restart.  Every frame of the loop draws
\* (and so advances the card in flight), commits a shown trick whose display
\* time is over and lets a CPU seat move; a human seat to move is taken to
\* click a legal card in the end.
NextLive ==
    \/ DrawSetup
    \/ SetPlayerCount
    \/ TogglePlayerType
    \/ StartGame
    \/ HandlePlayClick
    \/ CpuAutoPlay
    \/ AnimationFinished
    \/ CommitResolution

\* a human seat to move has a card it can click that is taken
CanClick ==
    /\ state = "play"
    /\ ~paused
    /\ \E card_index \in 0..(Len(full_deck) - 1) : handle_play_click(self, card_index) # self

\* update_play would play a card for the CPU seat to move
CanAutoPlay ==
    /\ state = "play"
    /\ ~paused
    /\ ~animating
    /\ ~players[active_index].is_human
    /\ cpu_auto_play_if_needed(self) # self

\* a shown trick waits for its commit
CanCommit ==
    /\ state = "showing_trick"
    /\ ~paused
    /\ actually_resolve_trick(self, pending_tochoo) # self

\* weak fairness of the four steps the loop takes by itself.  For the three
\* steps whose effect is a whole method call, WF_vars(A) is written out as
\* <>[](ENABLED <<A>>_vars) => []<><<A>>_vars with the enabling condition
\* given as a state predicate: the step's guard and a result that differs
\* from the present state.
Fairness ==
    /\ WF_vars(AnimationFinished)
    /\ <>[]CanClick => []<><<HandlePlayClick>>_vars
    /\ <>[]CanAutoPlay => []<><<CpuAutoPlay>>_vars
    /\ <>[]CanCommit => []<><<CommitResolution>>_vars

SpecLive == Init /\ [][NextLive]_vars /\ Fairness

\* =================================================================== claims
\* a game is on: start_game has run and the game is not finished
InGame == state \in {"play", "showing_trick", "paused"}

Hand(i) == players[i].hand
HandCards(i) == {Hand(i)[k] : k \in 1..Len(Hand(i))}
TrickCards == {trick_cards[k][2] : k \in 1..Len(trick_cards)}
DiscardCards == {discard_pile[k] : k \in 1..Len(discard_pile)}

RECURSIVE SumHands(_)
SumHands(seats) ==
    IF seats = {} THEN 0
    ELSE LET i == CHOOSE j \in seats : TRUE
         IN  Len(Hand(i)) + SumHands(seats \ {i})

\* the number of places (hands, trick, discard pile) that hold card c, each
\* counted as often as it holds c
Copies(c) ==
    Cardinality({<<i, k>> \in Seats(self) \X (1..Len(full_deck)) :
                    k <= Len(Hand(i)) /\ Hand(i)[k] = c})
    + Cardinality({k \in 1..Len(trick_cards) : trick_cards[k][2] = c})
    + Cardinality({k \in 1..Len(discard_pile) : discard_pile[k] = c})

\* C1: card conservation.  While a game is on, the hand sizes, the discard
\* pile and the cards of the trick in flight add up to the size of the deck,
\* and every card of the deck is in exactly one of those places.
C1_CardConservation ==
    InGame =>
        /\ SumHands(Seats(self)) + Len(discard_pile) + Len(trick_cards) = Len(full_deck)
        /\ \A c \in DeckSet : Copies(c) = 1

\* C1 witness: mid-game, with cards discarded, a trick in flight and a seat
\* that holds more cards than it was dealt (it has picked a trick up)
C1_Witness ==
    /\ InGame
    /\ discard_pile # <<>>
    /\ trick_cards # <<>>
    /\ \E i \in Seats(self) : Len(Hand(i)) > DealCount(player_count, i)

\* C2: follow-suit legality.  With a required suit set, the playable indices of
\* an active seat are, in increasing order, exactly the indices of its cards
\* of the required suit if it holds one, and every index of its hand if not.
C2_FollowSuit ==
    required_suit # NONE =>
        \A i \in ActiveSeats(self) :
            LET r == playable_indices_for_player(self, i)
                got == {r[k] : k \in 1..Len(r)}
                ofSuit == {ci \in 0..(Len(Hand(i)) - 1) : Hand(i)[ci + 1].suit = required_suit}
            IN  /\ \A k \in 1..(Len(r) - 1) : r[k] < r[k + 1]
                /\ got = IF ofSuit # {} THEN ofSuit ELSE 0..(Len(Hand(i)) - 1)

\* C2 witness: a trick is led, the seat to move holds the required suit and
\* another suit, and another active seat holds no card of the required suit
C2_Witness ==
    /\ state = "play"
    /\ required_suit # NONE
    /\ players[active_index].is_active
    /\ \E a, b \in HandCards(active_index) : a.suit = required_suit /\ b.suit # required_suit
    /\ \E j \in ActiveSeats(self) :
          /\ Hand(j) # <<>>
          /\ \A c \in HandCards(j) : c.suit # required_suit

\* the state directly after start_game: the opening play is still to come
Opening == state = "play" /\ first_move /\ required_suit = NONE

\* C3: first move.  Directly after start_game the playable indices of the
\* leader are exactly one index, that of the Ace of Spades, and
\* attempt_play_card by the leader with any other card is rejected: it
\* returns the game unchanged.
C3_FirstMove ==
    Opening =>
        /\ LET r == playable_indices_for_player(self, leader_index)
           IN  /\ Len(r) = 1
               /\ IsAceOfSpades(Hand(leader_index)[r[1] + 1])
        /\ \A ci \in 0..(Len(Hand(leader_index)) - 1) :
              ~IsAceOfSpades(Hand(leader_index)[ci + 1])
              => attempt_play_card(self, leader_index, ci) = self

\* C3 witness: directly after start_game, the leader holds the Ace of Spades
\* and another card
C3_Witness ==
    /\ Opening
    /\ ~paused
    /\ ~animating
    /\ Len(Hand(leader_index)) >= 2
    /\ \E c \in HandCards(leader_index) : IsAceOfSpades(c)

\* the cases in which attempt_play_card(player_idx, card_index) is to reject
Rejected(player_idx, card_index) ==
    \/ animating
    \/ player_idx # active_index
    \/ ~players[player_idx].is_active
    \/ ~is_card_playable(self, player_idx, card_index)

\* C4: a rejected attempt_play_card (animation hold, seat not to move, seat
\* inactive, card illegal) changes nothing of the game state: wherever the
\* call can be made, it returns the game unchanged.
C4_RejectionChangesNothing ==
    \A player_idx \in Seats(self), card_index \in 0..(Len(full_deck) - 1) :
        (CanCall(player_idx, card_index) /\ Rejected(player_idx, card_index))
        => attempt_play_card(self, player_idx, card_index) = self

\* C4 witness: during play with no animation, the seat to move holds the
\* required suit and an off-suit card (an illegal card it could try), while
\* another seat is out (an inactive seat that could try)
C4_Witness ==
    /\ state = "play"
    /\ ~paused
    /\ ~animating
    /\ required_suit # NONE
    /\ players[active_index].is_active
    /\ \E a, b \in HandCards(active_index) : a.suit = required_suit /\ b.suit # required_suit
    /\ \E j \in Seats(self) : ~players[j].is_active

\* C5: resolving a tochoo grows the hand of one seat, the recipient, by the
\* number of cards in the trick, all of them (not only the off-suit ones),
\* leaves every other hand and the discard pile unchanged, and makes the
\* recipient both leader and seat to move.
C5_TochooPickup ==
    [][(CommitResolution /\ pending_tochoo) =>
          \E r \in Seats(self) :
             /\ Len(players'[r].hand) = Len(Hand(r)) + Len(trick_cards)
             /\ {players'[r].hand[k] : k \in 1..Len(players'[r].hand)}
                   = HandCards(r) \cup TrickCards
             /\ \A j \in Seats(self) \ {r} : players'[j].hand = Hand(j)
             /\ discard_pile' = discard_pile
             /\ leader_index' = r
             /\ active_index' = r]_vars

\* C5 witness: a tochoo has just been resolved: the seat that leads and is
\* to move has just picked up, and holds cards of its avoid suit and of
\* another suit
C5_Witness ==
    /\ state = "play"
    /\ trick_cards = <<>>
    /\ leader_index = active_index
    /\ players[active_index].just_picked_up
    /\ \E a, b \in HandCards(active_index) :
          a.suit = players[active_index].avoid_suit /\ b.suit # a.suit

\* C6: resolving a clean trick moves as many cards to the discard pile as
\* there are active seats at that moment, the cards of the trick, and changes
\* no hand.
C6_CleanTrick ==
    [][(CommitResolution /\ ~pending_tochoo) =>
          /\ Len(discard_pile') = Len(discard_pile) + count_active_players(self)
          /\ discard_pile' = discard_pile \o [k \in 1..Len(trick_cards) |-> trick_cards[k][2]]
          /\ \A j \in Seats(self) : players'[j].hand = Hand(j)]_vars

\* C6 witness: a clean trick has been resolved and the game goes on
C6_Witness ==
    /\ state = "play"
    /\ trick_cards = <<>>
    /\ discard_pile # <<>>
    /\ ~animating

\* the seat that played the highest card of the required suit in the trick,
\* the leader if no card of the trick has the required suit
HighestOfSuit ==
    LET suited == {k \in 1..Len(trick_cards) : trick_cards[k][2].suit = required_suit}
    IN  IF suited = {} THEN leader_index
        ELSE trick_cards[CHOOSE k \in suited :
                            \A j \in suited :
                               trick_cards[j][2].value <= trick_cards[k][2].value][1]

\* C7: in both outcomes of a resolution the new leader and seat to move is the
\* seat that played the highest card of the required suit.
C7_Winner ==
    [][CommitResolution =>
          /\ leader_index' = HighestOfSuit
          /\ active_index' = HighestOfSuit]_vars

\* C7 witness: a trick waits to be resolved whose highest card of the required
\* suit was not played by its leader
C7_Witness ==
    /\ state = "showing_trick"
    /\ ~paused
    /\ Len(trick_cards) >= 2
    /\ HighestOfSuit # leader_index

\* C8: a second actually_resolve_trick straight after the first changes
\* nothing: the game as the first call left it is a fixed point of the call.
C8_CommitIdempotent ==
    [][CommitResolution => actually_resolve_trick(self', pending_tochoo') = self']_vars

\* C8 witness: a resolution has just run and ranked a seat
C8_Witness ==
    /\ state = "play"
    /\ trick_cards = <<>>
    /\ ~animating
    /\ ranks_assigned > 0
    /\ \E i \in Seats(self) : Len(Hand(i)) > DealCount(player_count, i)

\* C9: a seat whose hand becomes empty while it is active is ranked, once, and
\* makes no play afterwards.  Step by step, while one game lasts: a rank that
\* is set never changes, no seat is listed twice in finish_order, and an active
\* seat with an empty hand is never given cards again (so no further play of
\* it can be accepted) and is ranked by the resolution of the trick at the
\* latest.
C9_EmptiedSeatIsOut ==
    [][(state # "setup" /\ state' # "setup") =>
          \A i \in Seats(self) :
             /\ players[i].finished_rank # NoRank
                   => players'[i].finished_rank = players[i].finished_rank
             /\ Cardinality({k \in 1..Len(finish_order') : finish_order'[k][1] = i}) <= 1
             /\ (players[i].is_active /\ Hand(i) = <<>>) =>
                   /\ players'[i].hand = <<>>
                   /\ CommitResolution => players'[i].finished_rank # NoRank]_vars

\* C10: game end.  After every step: in 'play' and 'showing_trick' (and while
\* paused) at least two seats are active; outside the setup screen, as soon
\* as at most one seat is active the state is 'finished', no seat is active
\* any more and every seat is ranked; and in the step that ends the game the
\* seat that remained (active before, its hand not emptied) has got the last
\* rank.
C10_GameEnd ==
    [][/\ state' \in {"play", "showing_trick", "paused"}
             => count_active_players(self') >= 2
       /\ (state' # "setup" /\ count_active_players(self') <= 1) =>
             /\ state' = "finished"
             /\ ranks_assigned' = NumPlayers(self')
             /\ \A i \in Seats(self') :
                   /\ ~players'[i].is_active
                   /\ players'[i].finished_rank \in 1..ranks_assigned'
       /\ (state # "finished" /\ state' = "finished") =>
             \A i \in ActiveSeats(self) :
                players'[i].hand # <<>>
                => players'[i].finished_rank = NumPlayers(self)]_vars

\* C10 witness: the game is finished and the seat left holding cards has the
\* last rank
C10_Witness ==
    /\ state = "finished"
    /\ \E i \in Seats(self) :
          /\ Hand(i) # <<>>
          /\ players[i].finished_rank = NumPlayers(self)
          /\ ~players[i].is_active

\* the position of seat i's entry in the trick (0 if it has none)
TrickPos(i) ==
    IF \E k \in 1..Len(trick_cards) : trick_cards[k][1] = i
    THEN CHOOSE k \in 1..Len(trick_cards) : trick_cards[k][1] = i
    ELSE 0

\* the seats that get their rank in the step
NewlyRanked ==
    {i \in Seats(self) : players[i].finished_rank = NoRank
                         /\ players'[i].finished_rank # NoRank}

\* C11: ranks follow the order in which hands were emptied.  In every step of
\* a game: a seat ranked in the step gets a larger rank than every seat ranked
\* before; of two seats ranked in the same step that both played their last
\* card into the trick, the one that played first gets the smaller rank; and
\* a seat ranked while it still holds cards (the last one remaining) gets the
\* largest rank of the step.
C11_RankOrder ==
    [][(state # "setup" /\ state' # "setup") =>
          \A a \in Seats(self), b \in NewlyRanked :
             /\ players[a].finished_rank # NoRank
                   => players[a].finished_rank < players'[b].finished_rank
             /\ (a \in NewlyRanked /\ Hand(a) = <<>> /\ Hand(b) = <<>>
                 /\ 0 < TrickPos(a) /\ TrickPos(a) < TrickPos(b))
                   => players'[a].finished_rank < players'[b].finished_rank
             /\ (a \in NewlyRanked /\ a # b /\ players'[b].hand # <<>>)
                   => players'[a].finished_rank < players'[b].finished_rank]_vars

\* seat i makes an accepted play in the step: its hand loses a card and the
\* trick gains an entry
Plays(i) ==
    /\ state = "play"
    /\ Len(trick_cards') = Len(trick_cards) + 1
    /\ trick_cards'[Len(trick_cards')][1] = i
    /\ Len(players'[i].hand) = Len(Hand(i)) - 1

\* C12: an accepted play, leading or following, that leaves the seat's hand
\* empty gives the seat the next rank in that same step, marks it inactive,
\* appends it to finish_order and evaluates game end.
C12_RankedAtPlay ==
    [][\A i \in Seats(self) :
          (Plays(i) /\ players'[i].hand = <<>>) =>
             /\ players'[i].finished_rank = ranks_assigned + 1
             /\ ~players'[i].is_active
             /\ Len(finish_order') > Len(finish_order)
             /\ finish_order'[Len(finish_order) + 1] = <<i, ranks_assigned + 1>>
             /\ count_active_players(self') <= 1 => state' = "finished"]_vars

\* C13: the trick invariant.  The trick holds at most one entry of a seat and
\* never more entries than there are active seats.
C13_TrickInvariant ==
    /\ \A j, k \in 1..Len(trick_cards) :
          trick_cards[j][1] = trick_cards[k][1] => j = k
    /\ Len(trick_cards) <= count_active_players(self)

\* C14: a seat that is not active has an empty hand.
C14_InactiveHandEmpty ==
    \A i \in Seats(self) : ~players[i].is_active => Hand(i) = <<>>

\* C15: once a seat is inactive, no later step of the same game changes its
\* hand; in particular the commit of a tochoo adds no cards to it.
C15_InactiveHandFrozen ==
    [][(state # "setup" /\ state' # "setup") =>
          \A i \in Seats(self) :
             ~players[i].is_active => players'[i].hand = Hand(i)]_vars

\* C16: a legitimate tochoo ends the trick at once.  The play of a seat that
\* holds no card of the required suit queues the resolution with
\* tochoo_occurred = true and sets the hold, however many seats have played;
\* while it is queued the trick gets no further entry and the next thing that
\* happens to it is resolve_trick with tochoo_occurred = true; and the trick
\* shown stays as it is until the resolution is committed (or the game is
\* restarted).
C16_TochooEndsTrick ==
    [][/\ \A i \in Seats(self) :
             (Plays(i) /\ required_suit # NONE /\ ~has_suit(Hand(i), required_suit))
             => resolve_after_animation' = "True" /\ animating'
       /\ (resolve_after_animation = "True" /\ state' # "setup") =>
             /\ trick_cards' = trick_cards
             /\ \/ resolve_after_animation' = "True" /\ animating'
                \/ /\ resolve_after_animation' = NONE
                   /\ state' = "showing_trick"
                   /\ showing_trick'
                   /\ pending_tochoo'
       /\ (showing_trick /\ pending_tochoo /\ trick_cards' # trick_cards)
             => CommitResolution \/ state' = "setup"]_vars

\* C16 witness: a tochoo is shown that was played before every active seat
\* had played into the trick
C16_Witness ==
    /\ state = "showing_trick"
    /\ pending_tochoo
    /\ Len(trick_cards) >= 2
    /\ Len(trick_cards) < count_active_players(self)

\* C17: leaving pause resumes the state that was paused.  In every paused
\* state, toggle_pause takes the game back to 'showing_trick' if a trick is
\* being shown and to 'play' otherwise, with paused = false.
C17_PauseResumes ==
    state = "paused" =>
        LET g == toggle_pause(self)
        IN  /\ ~g.paused
            /\ g.state = IF showing_trick THEN "showing_trick" ELSE "play"

\* C18: while the game is paused nothing moves.  A step that starts and ends
\* with paused = true (so neither toggle_pause nor a restart) leaves the state
\* 'paused', the table (hands, trick, required suit, leader, seat to move,
\* ranks, discard pile) and the record of a trick being shown as they are:
\* no play, no CPU move, no resolve_trick, no actually_resolve_trick.
C18_PausedFreezes ==
    [][(paused /\ paused') =>
          /\ state = "paused" /\ state' = "paused"
          /\ players' = players
          /\ trick_cards' = trick_cards
          /\ discard_pile' = discard_pile
          /\ required_suit' = required_suit
          /\ leader_index' = leader_index
          /\ active_index' = active_index
          /\ ranks_assigned' = ranks_assigned
          /\ finish_order' = finish_order
          /\ showing_trick' = showing_trick
          /\ pending_tochoo' = pending_tochoo]_vars

\* C19: the presentation hold.  Every accepted play is made with no animation
\* running and sets the hold; and while the hold is set, a click on any card
\* and a CPU turn leave the game as it is.
C19_PresentationHold ==
    [][/\ \A i \in Seats(self) : Plays(i) => ~animating /\ animating'
       /\ (animating /\ state = "play") =>
             /\ cpu_auto_play_if_needed(self) = self
             /\ \A card_index \in 0..(Len(full_deck) - 1) :
                   handle_play_click(self, card_index) = self]_vars

\* C19 witness: a card is on its way, play is not paused, and the seat to move
\* is active and holds a card it could otherwise play
C19_Witness ==
    /\ state = "play"
    /\ ~paused
    /\ animating
    /\ resolve_after_animation = NONE
    /\ players[active_index].is_active
    /\ playable_indices_for_player(self, active_index) # <<>>

\* resolve_trick runs in the step: a trick starts being shown
Triggers == ~showing_trick /\ showing_trick'

\* C20: deferred resolution.  The step in which resolve_trick runs changes no
\* hand, nor the trick, the discard pile, the leader, the seat to move, the
\* required suit or a rank: it records the pending outcome and the suit and
\* moves to 'showing_trick'.  From 'showing_trick' the game goes on only by
\* actually_resolve_trick; apart from that there are the pause overlay and
\* the restart, and as long as the trick is shown no play is accepted.
C20_DeferredResolution ==
    [][/\ Triggers =>
             /\ players' = players
             /\ trick_cards' = trick_cards /\ trick_cards # <<>>
             /\ discard_pile' = discard_pile
             /\ leader_index' = leader_index
             /\ active_index' = active_index
             /\ required_suit' = required_suit
             /\ ranks_assigned' = ranks_assigned
             /\ finish_order' = finish_order
             /\ state' = "showing_trick"
             /\ pending_tochoo' = (resolve_after_animation = "True")
             /\ last_trick_suit' = required_suit
       /\ (state = "showing_trick" /\ state' # "showing_trick") =>
             \/ CommitResolution
             \/ state' = "paused" /\ paused' /\ UNCHANGED <<players, trick_cards>>
             \/ state' = "setup"
       /\ (showing_trick /\ state' # "setup" /\ ~CommitResolution) =>
             /\ showing_trick'
             /\ players' = players
             /\ trick_cards' = trick_cards]_vars

\* C20 witness: a complete clean trick is being shown and waits for the
\* commit
C20_Witness ==
    /\ state = "showing_trick"
    /\ showing_trick
    /\ ~paused
    /\ ~pending_tochoo
    /\ required_suit # NONE
    /\ Len(trick_cards) = count_active_players(self)

\* start_game runs in the step
Starts == state = "setup" /\ state' # "setup"

\* C21: the deal.  start_game deals the whole deck, no card left over and none
\* twice, and seat i of n gets floor(deck / n) cards plus one more exactly if
\* i < deck mod n.
C21_Deal ==
    [][Starts =>
          LET n == player_count'
              deck == NumSuits * NumRanks
              dealt(i) == {players'[i].hand[k] : k \in 1..Len(players'[i].hand)}
          IN  /\ DOMAIN players' = 0..(n - 1)
              /\ \A i \in 0..(n - 1) :
                    /\ Len(players'[i].hand)
                          = (deck \div n) + (IF i < deck % n THEN 1 ELSE 0)
                    /\ Cardinality(dealt(i)) = Len(players'[i].hand)
              /\ \A i, j \in 0..(n - 1) : i # j => dealt(i) \cap dealt(j) = {}
              /\ UNION {dealt(i) : i \in 0..(n - 1)} = DeckSet
              /\ Cardinality(DeckSet) = deck]_vars

\* C21 witness: a game of four has just been dealt, with a remainder: the
\* first seat holds a card more than the last
C21_Witness ==
    /\ Opening
    /\ player_count = 4
    /\ Len(Hand(0)) = Len(Hand(3)) + 1

\* C22: after start_game the seat holding the Ace of Spades leads and is to
\* move, first_move is set, no suit is required, trick, discard pile and
\* finish_order are empty, the rank counter is 0, every seat is active and
\* unranked with its pickup flags cleared, and the state is 'play'.
C22_AfterStart ==
    [][Starts =>
          /\ state' = "play"
          /\ leader_index' = active_index'
          /\ leader_index' \in DOMAIN players'
          /\ \E k \in 1..Len(players'[leader_index'].hand) :
                IsAceOfSpades(players'[leader_index'].hand[k])
          /\ first_move'
          /\ required_suit' = NONE
          /\ trick_cards' = <<>>
          /\ discard_pile' = <<>>
          /\ finish_order' = <<>>
          /\ ranks_assigned' = 0
          /\ \A i \in DOMAIN players' :
                /\ players'[i].is_active
                /\ players'[i].finished_rank = NoRank
                /\ ~players'[i].just_picked_up
                /\ players'[i].avoid_suit = NONE]_vars

\* C22 witness: a game has just been started in which the Ace of Spades was
\* not dealt to the first seat
C22_Witness ==
    /\ Opening
    /\ ~animating
    /\ leader_index # 0
    /\ \A c \in HandCards(0) : ~IsAceOfSpades(c)

\* C23: the CPU's choice is legal.  During play, whenever the seat to move is
\* a CPU seat with a non-empty hand, cpu_choose_card_index returns an index
\* of its hand for which is_card_playable is true.
C23_CpuChoiceLegal ==
    (state = "play" /\ ~players[active_index].is_human /\ Hand(active_index) # <<>>) =>
        LET idx == cpu_choose_card_index(self, active_index)
        IN  /\ idx \in 0..(Len(Hand(active_index)) - 1)
            /\ is_card_playable(self, active_index, idx)

\* C24: avoidance memory.  A commit with tochoo sets just_picked_up and
\* avoid_suit = the required suit of the resolved trick on the seat that
\* picks up; every accepted play by a seat (lead, follow, trick-completing
\* follow, tochoo) leaves that seat with just_picked_up false and avoid_suit
\* None.
C24_AvoidanceMemory ==
    [][/\ (CommitResolution /\ pending_tochoo) =>
              /\ players'[HighestOfSuit].just_picked_up
              /\ players'[HighestOfSuit].avoid_suit = required_suit
       /\ \A i \in Seats(self) :
              Plays(i) => /\ ~players'[i].just_picked_up
                          /\ players'[i].avoid_suit = NONE]_vars

\* the leader has led from a hand it had picked a trick up into
C24_Witness ==
    /\ state = "play"
    /\ Len(trick_cards) = 1
    /\ trick_cards[1][1] = leader_index
    /\ Len(Hand(leader_index)) > DealCount(player_count, leader_index)
    /\ ~players[leader_index].just_picked_up
    /\ players[leader_index].avoid_suit = NONE

\* C25: in every reachable state required_suit is None exactly when
\* trick_cards is empty.
C25_RequiredSuitIffTrick == (required_suit = NONE) <=> (trick_cards = <<>>)

\* a trick is under way and a follower has played into it
C25_Witness ==
    /\ InGame
    /\ Len(trick_cards) >= 2
    /\ required_suit = trick_cards[1][2].suit

\* C26: restart_to_setup, called in any reachable state, gives state 'setup'
\* with players, trick_cards, discard_pile and finish_order empty, the rank
\* counter 0, required_suit None, first_move, paused, showing_trick and
\* pending_tochoo False, no animation hold and no queued outcome.
C26_RestartResets ==
    LET g == restart_to_setup(self)
    IN  /\ g.state = "setup"
        /\ g.players = <<>>
        /\ g.trick_cards = <<>>
        /\ g.discard_pile = <<>>
        /\ g.finish_order = <<>>
        /\ g.ranks_assigned = 0
        /\ g.required_suit = NONE
        /\ ~g.first_move
        /\ ~g.paused
        /\ ~g.showing_trick
        /\ ~g.pending_tochoo
        /\ ~g.animating
        /\ g.resolve_after_animation = NONE

\* a paused game with a card in flight, a queued outcome, cards discarded and
\* a seat ranked: everything the restart has to drop
C26_Witness ==
    /\ state = "paused"
    /\ animating
    /\ resolve_after_animation # NONE
    /\ discard_pile # <<>>
    /\ finish_order # <<>>
    /\ trick_cards # <<>>

\* the first active seat after seat i in seat order, wrapping round
NextSeat(i) ==
    LET n == Cardinality(DOMAIN players)
        d == CHOOSE d \in 1..n :
                 /\ players[(i + d) % n].is_active
                 /\ \A e \in 1..(d - 1) : ~players[(i + e) % n].is_active
    IN  (i + d) % n

\* seat i plays a card of the required suit into a started trick
Follows(i) ==
    /\ Plays(i)
    /\ required_suit # NONE
    /\ trick_cards'[Len(trick_cards')][2].suit = required_suit

\* C27: after an accepted follow of the required suit the seat to move is the
\* next active seat, and the trick is queued for a clean resolution
\* (tochoo_occurred false) exactly when the seat to move is the leader again
\* and the trick holds as many cards as there are active seats; otherwise
\* nothing is queued.
C27_CleanCompletion ==
    [][\A i \in Seats(self) :
          Follows(i) =>
             LET active == {j \in DOMAIN players' : players'[j].is_active}
                 full == /\ active_index' = leader_index'
                         /\ Len(trick_cards') = Cardinality(active)
             IN  /\ active_index' = NextSeat(i)
                 /\ leader_index' = leader_index
                 /\ full <=> resolve_after_animation' = "False"
                 /\ ~full => resolve_after_animation' = NONE]_vars

\* the last active seat has followed suit: the clean trick is queued
C27_Witness ==
    /\ state = "play"
    /\ animating
    /\ resolve_after_animation = "False"
    /\ active_index = leader_index
    /\ Len(trick_cards) = Cardinality(ActiveSeats(self))
    /\ \A k \in 1..Len(trick_cards) : trick_cards[k][2].suit = required_suit

\* C28: an accepted play by seat i takes exactly one card, the chosen one,
\* out of its hand and appends (i, card) to trick_cards; no other hand
\* changes; a lead sets required_suit to the suit of the card and clears
\* first_move; after a lead or a play of the required suit the seat to move
\* is the next active seat in seat order, wrapping and skipping inactive
\* seats.
C28_PlayEffect ==
    [][\A i \in Seats(self) :
          Plays(i) =>
             \E ci \in 1..Len(Hand(i)) :
                LET card == Hand(i)[ci]
                    lead == required_suit = NONE
                IN  /\ players'[i].hand =
                          [k \in 1..(Len(Hand(i)) - 1) |->
                              IF k < ci THEN Hand(i)[k] ELSE Hand(i)[k + 1]]
                    /\ trick_cards' = Append(trick_cards, <<i, card>>)
                    /\ \A j \in Seats(self) \ {i} : players'[j].hand = Hand(j)
                    /\ lead => (required_suit' = card.suit /\ ~first_move')
                    /\ ~lead => required_suit' = required_suit
                    /\ (lead \/ card.suit = required_suit) => active_index' = NextSeat(i)]_vars

\* a lead has been played, first_move is cleared, and the seat to move is
\* not the seat next to the leader: an inactive seat was skipped
C28_Witness ==
    /\ state = "play"
    /\ Len(trick_cards) = 1
    /\ trick_cards[1][1] = leader_index
    /\ required_suit = trick_cards[1][2].suit
    /\ ~first_move
    /\ active_index # (leader_index + 1) % NumPlayers(self)
    /\ players[active_index].is_active
    /\ players[leader_index].is_active

\* the stated policy: idx is an index of hand that the policy allows a seat
\* with that hand and avoidance memory to play
CpuPolicy(i, idx) ==
    LET hand == Hand(i)
        cards == HandCards(i)
        avoid == IF players[i].just_picked_up THEN players[i].avoid_suit ELSE NONE
        free == {c \in cards : c.suit # avoid}
        pool == IF avoid # NONE /\ free # {} THEN free ELSE cards
        suited == {c \in cards : c.suit = required_suit}
    IN  /\ idx \in 0..(Len(hand) - 1)
        /\ LET card == hand[idx + 1]
           IN  IF required_suit = NONE
               THEN IF first_move /\ i = active_index /\ \E c \in cards : IsAceOfSpades(c)
                    THEN IsAceOfSpades(card)
                    ELSE card \in pool /\ \A c \in pool : card.value <= c.value
               ELSE IF suited # {}
               THEN card \in suited /\ \A c \in suited : card.value <= c.value
               ELSE card \in pool /\ \A c \in pool : card.value >= c.value

StateEdges ==
    {<<"setup", "play">>,
     <<"play", "showing_trick">>,
     <<"showing_trick", "play">>,
     <<"showing_trick", "finished">>,
     <<"play", "paused">>, <<"showing_trick", "paused">>,
     <<"paused", "play">>, <<"paused", "showing_trick">>}
    \cup {<<s, "setup">> : s \in {"play", "showing_trick", "paused", "finished"}}

\* C30: the controller state changes only along setup -> play (the deal),
\* play -> showing_trick, showing_trick -> play, showing_trick -> finished,
\* the pause overlay and restart; 'finished' is entered only from
\* 'showing_trick', never directly from 'play'.
C30_StateEdges ==
    [][state' # state => <<state, state'>> \in StateEdges]_vars

\* attempt_play_card(active_index, ci) takes the card: the card at index ci
\* of the hand of the seat to move is appended to the trick
Accepts(ci) ==
    attempt_play_card(self, active_index, ci).trick_cards =
        Append(trick_cards, <<active_index, Hand(active_index)[ci + 1]>>)

\* C31: in every reachable state of a game with no animation hold, for the seat to
\* move and every index of its hand, attempt_play_card accepts the card if
\* and only if is_card_playable is true for that index; a call that does not
\* accept leaves the game as it was.
C31_AcceptIffPlayable ==
    (state # "setup" /\ ~animating) =>
        \A ci \in 0..(Len(Hand(active_index)) - 1) :
           /\ Accepts(ci) <=> is_card_playable(self, active_index, ci)
           /\ ~Accepts(ci) => attempt_play_card(self, active_index, ci) = self

\* the seat to move holds a card that is accepted and a card that is not
C31_Witness ==
    /\ state = "play"
    /\ ~animating
    /\ \E ci, cj \in 0..(Len(Hand(active_index)) - 1) :
          /\ Accepts(ci) /\ is_card_playable(self, active_index, ci)
          /\ ~Accepts(cj) /\ ~is_card_playable(self, active_index, cj)

\* C32: no deadlock in play.  In every reachable state with state = 'play'
\* and no animation hold, the seat at active_index is active, holds at least
\* one card and has at least one playable index.
C32_NoDeadlock ==
    (state = "play" /\ ~animating) =>
        /\ players[active_index].is_active
        /\ Hand(active_index) # <<>>
        /\ playable_indices_for_player(self, active_index) # <<>>

\* C33: termination.  With no pause and no restart, if the seat to move
\* always plays a legal card in the end, every animation completes and every
\* triggered resolution is committed, a game that has been dealt reaches
\* state 'finished'.
C33_Termination == (state = "play") ~> (state = "finished")

\* the seats that have a rank
RankedSeats == {i \in Seats(self) : players[i].finished_rank # NoRank}

\* C34: rank bookkeeping.  In every reachable state the ranks given are
\* pairwise distinct and are exactly 1..ranks_assigned; finish_order lists
\* each ranked seat once, in increasing rank; a seat is inactive iff it has a
\* rank; and in state 'finished' every seat is ranked, so the ranks are a
\* permutation of 1..player_count.
C34_RankBookkeeping ==
    /\ {players[i].finished_rank : i \in RankedSeats} = 1..ranks_assigned
    /\ Cardinality(RankedSeats) = ranks_assigned
    /\ Len(finish_order) = ranks_assigned
    /\ \A k \in 1..Len(finish_order) :
          /\ finish_order[k][1] \in RankedSeats
          /\ finish_order[k][2] = k
          /\ players[finish_order[k][1]].finished_rank = k
    /\ \A i \in Seats(self) : ~players[i].is_active <=> i \in RankedSeats
    /\ state = "finished" =>
          /\ RankedSeats = Seats(self)
          /\ NumPlayers(self) = player_count
          /\ {players[i].finished_rank : i \in Seats(self)} = 1..player_count

\* a game has ended and the ranks do not follow the seat order
C34_Witness ==
    /\ state = "finished"
    /\ Len(finish_order) = player_count
    /\ \E k \in 1..(Len(finish_order) - 1) : finish_order[k][1] > finish_order[k + 1][1]

====
